---- MODULE Spec2Model ----
(***************************************************************************)
(* Set-overlap similarity engine of ssi/analysis/overlap.py.               *)
(*                                                                         *)
(* A Python set is a TLA+ set of element identifiers.  An argument that    *)
(* may be None is a tuple: <<>> is None and <<S>> is the set S.            *)
(*                                                                         *)
(* A Python float is modelled by the exact rational it stands for, kept    *)
(* as a reduced fraction <<numerator, denominator>> with denominator > 0,  *)
(* so that two floats are equal exactly when their tuples are equal.       *)
(* Rounding of the binary representation is not modelled.  A division by   *)
(* zero raises ZeroDivisionError, which propagates out of every caller.    *)
(***************************************************************************)
EXTENDS Integers, FiniteSets, Sequences, TLC

\* Number of distinct element identifiers the sets are drawn from.
MaxElem == 4

Elems == 1..MaxElem
Sets == SUBSET Elems

None == <<>>
Some(s) == <<s>>

\* The values a caller can pass as one argument of a metric.
SetArgs == {None} \cup {Some(s) : s \in Sets}

----------------------------------------------------------------------------
\* Floats as exact rationals.

RECURSIVE GCD(_, _)
GCD(a, b) == IF b = 0 THEN a ELSE GCD(b, a % b)

Frac(n, d) == LET g == GCD(n, d) IN <<n \div g, d \div g>>

ZeroDivisionError == <<0, 0>>

\* Python's n / d on numbers: raises when d is zero.
Div(n, d) == IF d = 0 THEN ZeroDivisionError ELSE Frac(n, d)

\* Python's q * k for a float q and an integer k; an exception raised while
\* evaluating q propagates.
Times(q, k) == IF q = ZeroDivisionError THEN ZeroDivisionError ELSE Frac(q[1] * k, q[2])

\* Order on the rationals.
Leq(p, q) == p[1] * q[2] <= q[1] * p[2]

Min(a, b) == IF a < b THEN a ELSE b

\* Python's len() of a set.
len(s) == Cardinality(s)

\* Python's truth value of an argument: None and the empty set are falsy.
Falsy(x) == x = None \/ x[1] = {}

----------------------------------------------------------------------------
\* overlap.py

default_exact_match == <<1, 1>>
default_empty_match == <<0, 1>>

\* Variant of handle_missing_sets whose first assignment tests right_set.
handle_missing_sets_wrong_test(left_set, right_set) ==
    << IF Falsy(right_set) \/ left_set = None THEN {} ELSE left_set[1],
       IF Falsy(right_set) THEN {} ELSE right_set[1] >>

\* handle_missing_sets: a falsy argument becomes set(), any other is kept.
handle_missing_sets(left_set, right_set) ==
    << IF Falsy(left_set) THEN {} ELSE left_set[1],
       IF Falsy(right_set) THEN {} ELSE right_set[1] >>

\* Variant of the dispatch without the equality short-circuit.
zero_length_branch_no_equal(l, r) ==
    IF len(l) = 0 /\ len(r) = 0 THEN "both_empty"
    ELSE IF len(l) = 0 \/ len(r) = 0 THEN "empty_match"
    ELSE "overlap_function"

\* Variant of the dispatch that tests for an empty side first.
zero_length_branch_empty_first(l, r) ==
    IF len(l) = 0 \/ len(r) = 0 THEN "empty_match"
    ELSE IF l = r THEN "exact_match"
    ELSE "overlap_function"

\* Variant of the dispatch without the test for one empty side.
zero_length_branch_no_empty(l, r) ==
    IF len(l) = 0 /\ len(r) = 0 THEN "both_empty"
    ELSE IF l = r THEN "exact_match"
    ELSE "overlap_function"

\* The return statement __handle_zero_length_sets leaves through, for the
\* normalised sets l and r.
zero_length_branch(l, r) ==
    IF len(l) = 0 /\ len(r) = 0 THEN "both_empty"
    ELSE IF l = r THEN "exact_match"
    ELSE IF len(l) = 0 \/ len(r) = 0 THEN "empty_match"
    ELSE "overlap_function"

\* __handle_zero_length_sets: overlap_function is the metric's core formula,
\* a function of the two normalised sets.
handle_zero_length_sets(left_set, right_set, overlap_function) ==
    LET sets == handle_missing_sets(left_set, right_set)
        l == sets[1]
        r == sets[2]
        branch == zero_length_branch(l, r)
    IN  CASE branch = "both_empty" -> default_exact_match
          [] branch = "exact_match" -> default_exact_match
          [] branch = "empty_match" -> default_empty_match
          [] OTHER -> overlap_function[l, r]

jaccard_similarity(left_set, right_set) ==
    LET overlap_function == [l \in Sets, r \in Sets |->
            Div(len(l \cap r), len(l \cup r))]
    IN  handle_zero_length_sets(left_set, right_set, overlap_function)

\* Variant of jaccard_index whose union counts the intersection twice.
jaccard_index_union_sum(left_set, right_set) ==
    LET overlap_function == [l \in Sets, r \in Sets |->
            LET intersection == len(l \cap r)
                union == len(l) + len(r)
            IN  Div(intersection, union)]
    IN  handle_zero_length_sets(left_set, right_set, overlap_function)

jaccard_index(left_set, right_set) ==
    LET overlap_function == [l \in Sets, r \in Sets |->
            LET intersection == len(l \cap r)
                union == len(l) + len(r) - intersection
            IN  Div(intersection, union)]
    IN  handle_zero_length_sets(left_set, right_set, overlap_function)

\* Variant of dice_coefficient without the factor 2.
dice_coefficient_no_factor(left_set, right_set) ==
    LET overlap_function == [l \in Sets, r \in Sets |->
            LET intersection == len(l \cap r)
            IN  Div(intersection, len(l) + len(r))]
    IN  handle_zero_length_sets(left_set, right_set, overlap_function)

\* Variant of dice_coefficient that divides by the size of the left set only.
dice_coefficient_left_only(left_set, right_set) ==
    LET overlap_function == [l \in Sets, r \in Sets |->
            LET intersection == len(l \cap r)
            IN  Div(2 * intersection, len(l))]
    IN  handle_zero_length_sets(left_set, right_set, overlap_function)

dice_coefficient(left_set, right_set) ==
    LET overlap_function == [l \in Sets, r \in Sets |->
            LET intersection == len(l \cap r)
            IN  Div(2 * intersection, len(l) + len(r))]
    IN  handle_zero_length_sets(left_set, right_set, overlap_function)

\* Variant of overlap_coefficient that divides by the size of the left set.
overlap_coefficient_left_length(left_set, right_set) ==
    LET overlap_function == [l \in Sets, r \in Sets |->
            LET intersection == len(l \cap r)
            IN  Div(intersection, len(l))]
    IN  handle_zero_length_sets(left_set, right_set, overlap_function)

\* Variant of overlap_coefficient that divides by the larger set's size.
overlap_coefficient_max_length(left_set, right_set) ==
    LET overlap_function == [l \in Sets, r \in Sets |->
            LET intersection == len(l \cap r)
                max_length == IF len(l) > len(r) THEN len(l) ELSE len(r)
            IN  Div(intersection, max_length)]
    IN  handle_zero_length_sets(left_set, right_set, overlap_function)

overlap_coefficient(left_set, right_set) ==
    LET overlap_function == [l \in Sets, r \in Sets |->
            LET intersection == len(l \cap r)
                min_length == Min(len(l), len(r))
            IN  Div(intersection, min_length)]
    IN  handle_zero_length_sets(left_set, right_set, overlap_function)

\* Variant of percentage_overlap that scales the core formula only.
percentage_overlap_core_scaled(left_set, right_set) ==
    LET overlap_function == [l \in Sets, r \in Sets |->
            LET intersection == len(l \cap r)
            IN  Times(Div(intersection, len(l) + len(r)), 100)]
    IN  handle_zero_length_sets(left_set, right_set, overlap_function)

percentage_overlap(left_set, right_set) ==
    LET overlap_function == [l \in Sets, r \in Sets |->
            LET intersection == len(l \cap r)
            IN  Div(intersection, len(l) + len(r))]
    IN  Times(handle_zero_length_sets(left_set, right_set, overlap_function), 100)

\* Exceptions other than ZeroDivisionError that a call can end with.
AttributeError == <<"AttributeError">>
TypeError == <<"TypeError">>
IndexError == <<"IndexError">>

\* Variant of asymmetrical_overlap that divides by the right set's size.
asymmetrical_overlap_right_length(left_set, right_set) ==
    IF left_set = None THEN AttributeError
    ELSE IF right_set = None THEN TypeError
    ELSE LET overlap == left_set[1] \cap right_set[1]
         IN  Div(len(overlap), len(right_set[1]))

\* Variant of asymmetrical_overlap routed through the zero-length dispatch.
asymmetrical_overlap_dispatched(left_set, right_set) ==
    LET overlap_function == [l \in Sets, r \in Sets |->
            Div(len(l \cap r), len(l))]
    IN  handle_zero_length_sets(left_set, right_set, overlap_function)

\* asymmetrical_overlap: no normalisation and no dispatch.  None has no
\* method intersection (AttributeError), and set.intersection(None) fails
\* because None is not iterable (TypeError).
asymmetrical_overlap(left_set, right_set) ==
    IF left_set = None THEN AttributeError
    ELSE IF right_set = None THEN TypeError
    ELSE LET overlap == left_set[1] \cap right_set[1]
         IN  Div(len(overlap), len(left_set[1]))

----------------------------------------------------------------------------
\* A call of one symmetric metric on a pair of arguments.

VARIABLES
    pc,         \* "ready": arguments bound, no metric called; "done": returned
    left_set,   \* first argument
    right_set,  \* second argument
    metric,     \* name of the metric that was called
    branch,     \* return statement the zero-length dispatch left through
    result      \* value returned by the metric, or ZeroDivisionError

\* A call of calculate_overlap_for_stores.
VARIABLES
    stage,                 \* "call", "loop", "returned" or "raised"
    store_data,            \* argument: the list of DataFrames
    overlap_function,      \* argument: the callable's name, or "default"
    preprocess_function,   \* argument: the callable's name, or "default"
    progress_bar,          \* argument: None, or the calls the bar received
    calculate_all_cells,   \* argument
    store_names,           \* local
    store_overlap,         \* local: the array
    row_index,             \* local: outer loop variable
    column_index,          \* local: inner loop variable
    returned               \* the DataFrame returned, or the exception raised

\* What a call of calculate_overlap_for_stores did, and the calls before it.
VARIABLES
    evaluated,   \* the pairs (row_index, column_index) overlap_function was
                 \* called for, in order
    writers,     \* for every cell of the array, the iterations that assigned it
    phase,       \* "first", "between" or "again": which call of a caller
                 \* that calls three times
    previous     \* the DataFrame the first call returned

\* A call of drop_short_strings or of batched_writer.
VARIABLES
    string_column,    \* argument of drop_short_strings
    drop_less_than,   \* argument of drop_short_strings, None when omitted
    dataframe,        \* argument of batched_writer: the rows
    batch_size,       \* argument of batched_writer
    process_batch,    \* argument of batched_writer
    i_batch,          \* local of batched_writer: the loop variable i
    pq_writer,        \* local of batched_writer: None or the writer
    parquet_file,     \* the calls pyarrow received for the file, in order
    progress_n        \* the counter of the tqdm bar of batched_writer

call_vars == <<pc, left_set, right_set, metric, branch, result>>

store_vars ==
    <<stage, store_data, overlap_function, preprocess_function, progress_bar,
      calculate_all_cells, store_names, store_overlap, row_index,
      column_index, returned>>

trace_vars == <<evaluated, writers, phase, previous>>

util_vars ==
    <<string_column, drop_less_than, dataframe, batch_size, process_batch,
      i_batch, pq_writer, parquet_file, progress_n>>

vars == <<call_vars, store_vars, trace_vars, util_vars>>

\* No call of drop_short_strings or batched_writer is in progress.
NoStringsCall ==
    /\ string_column = <<>>
    /\ drop_less_than = None

NoFilesCall ==
    /\ dataframe = <<>>
    /\ batch_size = 1
    /\ process_batch = "none"
    /\ i_batch = 0
    /\ pq_writer = None
    /\ parquet_file = <<>>
    /\ progress_n = 0

NoUtilCall == NoStringsCall /\ NoFilesCall

\* No call of calculate_overlap_for_stores is in progress.
NoStoresCall ==
    /\ stage = "idle"
    /\ store_data = <<>>
    /\ overlap_function = "default"
    /\ preprocess_function = "default"
    /\ progress_bar = None
    /\ calculate_all_cells = FALSE
    /\ store_names = <<>>
    /\ store_overlap = <<>>
    /\ row_index = 0
    /\ column_index = 0
    /\ returned = None
    /\ evaluated = <<>>
    /\ writers = <<>>
    /\ phase = "first"
    /\ previous = None

Init ==
    /\ pc = "ready"
    /\ left_set \in SetArgs
    /\ right_set \in SetArgs
    /\ metric = "none"
    /\ branch = "none"
    /\ result = None
    /\ NoStoresCall
    /\ NoUtilCall

Dispatched ==
    LET sets == handle_missing_sets(left_set, right_set)
    IN  zero_length_branch(sets[1], sets[2])

Returns(name, value) ==
    /\ pc' = "done"
    /\ metric' = name
    /\ branch' = Dispatched
    /\ result' = value
    /\ UNCHANGED <<left_set, right_set, store_vars, trace_vars, util_vars>>

JaccardSimilarity ==
    /\ pc = "ready"
    /\ Returns("jaccard_similarity", jaccard_similarity(left_set, right_set))

JaccardIndex ==
    /\ pc = "ready"
    /\ Returns("jaccard_index", jaccard_index(left_set, right_set))

DiceCoefficient ==
    /\ pc = "ready"
    /\ Returns("dice_coefficient", dice_coefficient(left_set, right_set))

OverlapCoefficient ==
    /\ pc = "ready"
    /\ Returns("overlap_coefficient", overlap_coefficient(left_set, right_set))

PercentageOverlap ==
    /\ pc = "ready"
    /\ Returns("percentage_overlap", percentage_overlap(left_set, right_set))

\* A call of handle_missing_sets: the result is the pair it returns.
HandleMissingSets ==
    /\ pc = "ready"
    /\ pc' = "done"
    /\ metric' = "handle_missing_sets"
    /\ result' = handle_missing_sets(left_set, right_set)
    /\ UNCHANGED <<left_set, right_set, branch, store_vars, trace_vars,
                   util_vars>>

\* A call of asymmetrical_overlap: the dispatch is not entered.
AsymmetricalOverlap ==
    /\ pc = "ready"
    /\ pc' = "done"
    /\ metric' = "asymmetrical_overlap"
    /\ result' = asymmetrical_overlap(left_set, right_set)
    /\ UNCHANGED <<left_set, right_set, branch, store_vars, trace_vars,
                   util_vars>>

Next ==
    \/ JaccardSimilarity
    \/ JaccardIndex
    \/ DiceCoefficient
    \/ OverlapCoefficient
    \/ PercentageOverlap

Spec == Init /\ [][Next]_vars

\* Calls of the two functions that do not pass through the dispatch.
NextUnguarded ==
    \/ HandleMissingSets
    \/ AsymmetricalOverlap

SpecUnguarded == Init /\ [][NextUnguarded]_vars

----------------------------------------------------------------------------
\* calculate_overlap_for_stores
\*
\* A DataFrame of one store is the sequence of its rows, a row being the
\* pair <<store id, product id>>: the store_id_column is the column of
\* first components and the product_id_column the column of second ones.
\* Matrix indices start at 0 as in the source.

\* Largest number of stores in store_data.
MaxStores == 3

\* The DataFrames the stores are drawn from: one without rows, one with
\* three products, one with a duplicated row, one with a single product,
\* and one whose rows carry different store ids.
Frames ==
    { <<>>,
      << <<1, 1>>, <<1, 2>>, <<1, 3>> >>,
      << <<2, 2>>, <<2, 3>>, <<2, 2>> >>,
      << <<3, 1>> >>,
      << <<4, 3>>, <<1, 2>> >> }

StoreLists == UNION { [1..n -> Frames] : n \in 0..MaxStores }

\* The callables a caller passes as overlap_function; "default" stands for
\* an omitted argument.
OverlapFunctions ==
    { "default", "jaccard_similarity", "jaccard_index", "dice_coefficient",
      "overlap_coefficient", "percentage_overlap", "asymmetrical_overlap" }

\* The callables a caller passes as preprocess_function: "default" stands
\* for an omitted argument, "filter" for a function that keeps the entries
\* of the column that are at least 2.
PreprocessFunctions == { "default", "filter" }

\* The content of an array cell that np.empty allocated and nobody wrote.
Uninitialised == <<"uninitialised">>

\* store[column].values for the store id column and the product id column.
store_id_values(store) == [k \in 1..Len(store) |-> store[k][1]]
product_id_values(store) == [k \in 1..Len(store) |-> store[k][2]]

\* The overlap_function in effect: jaccard_index when the argument is omitted.
effective_overlap_function(f) == IF f = "default" THEN "jaccard_index" ELSE f

\* overlap_function(store1_set, store2_set) for the callable named f.
call_overlap_function(f, store1_set, store2_set) ==
    LET g == effective_overlap_function(f)
        x == Some(store1_set)
        y == Some(store2_set)
    IN  CASE g = "jaccard_similarity" -> jaccard_similarity(x, y)
          [] g = "jaccard_index" -> jaccard_index(x, y)
          [] g = "dice_coefficient" -> dice_coefficient(x, y)
          [] g = "overlap_coefficient" -> overlap_coefficient(x, y)
          [] g = "percentage_overlap" -> percentage_overlap(x, y)
          [] g = "asymmetrical_overlap" -> asymmetrical_overlap(x, y)

\* preprocess_function(series): the identity lambda when omitted.
call_preprocess_function(p, series) ==
    IF p = "default" THEN series
    ELSE SelectSeq(series, LAMBDA v : v >= 2)

\* set(preprocess_function(store[product_id_column]).values)
store_set(p, store) ==
    LET values == call_preprocess_function(p, product_id_values(store))
    IN  { values[k] : k \in 1..Len(values) }

\* Whether an outcome is a raised exception rather than a value.
IsException(v) ==
    v \in {ZeroDivisionError, AttributeError, TypeError, IndexError}

\* Line 354: values[0] of a column without rows raises IndexError.
store_names_raise(data) == \E k \in 1..Len(data) : Len(data[k]) = 0

\* Variant of store_names_of that takes the last store id of every store.
store_names_of_last(data) ==
    [k \in 1..Len(data) |-> store_id_values(data[k])[Len(data[k])]]

\* Variant of store_names_of that appends to the names of the call before.
store_names_of_accumulated(data) ==
    store_names \o [k \in 1..Len(data) |-> store_id_values(data[k])[1]]

\* Line 354: the store names, the first store id of every store.
store_names_of(data) == [k \in 1..Len(data) |-> store_id_values(data[k])[1]]

\* Lines 355-356: np.empty((number_of_stores, number_of_stores)).
empty_matrix(number_of_stores) ==
    [c \in (0..number_of_stores - 1) \X (0..number_of_stores - 1) |-> Uninitialised]

\* Line 358: the first column of a row.
column_start_index(row, all_cells) == IF ~all_cells THEN row ELSE 0

\* Variant of pair_overlap that does not preprocess the second store.
pair_overlap_unprocessed_second(data, f, p, row, column) ==
    LET store1 == data[row + 1]
        store2 == data[column + 1]
        store1_set == store_set(p, store1)
        store2_set == store_set("default", store2)
    IN  call_overlap_function(f, store1_set, store2_set)

\* Variant of pair_overlap that takes both stores at row_index.
pair_overlap_same_store(data, f, p, row, column) ==
    LET store1 == data[row + 1]
        store2 == data[row + 1]
        store1_set == store_set(p, store1)
        store2_set == store_set(p, store2)
    IN  call_overlap_function(f, store1_set, store2_set)

\* Variant of pair_overlap that passes the set of the column's store first.
pair_overlap_swapped(data, f, p, row, column) ==
    LET store1 == data[row + 1]
        store2 == data[column + 1]
        store1_set == store_set(p, store1)
        store2_set == store_set(p, store2)
    IN  call_overlap_function(f, store2_set, store1_set)

\* Lines 366-374: the overlap of the pair (row, column).
pair_overlap(data, f, p, row, column) ==
    LET store1 == data[row + 1]
        store2 == data[column + 1]
        store1_set == store_set(p, store1)
        store2_set == store_set(p, store2)
    IN  call_overlap_function(f, store1_set, store2_set)

\* Variant of write_cells without the mirrored assignment.
write_cells_no_mirror(matrix, row, column, overlap) ==
    [matrix EXCEPT ![<<row, column>>] = overlap]

\* Lines 375-376: the two assignments of one iteration.
write_cells(matrix, row, column, overlap) ==
    [matrix EXCEPT ![<<row, column>>] = overlap, ![<<column, row>>] = overlap]

\* Lines 357-359: the pair that follows (row, column) in the two loops, the
\* row index being the number of stores when the loops are over.
next_pair(row, column, number_of_stores, all_cells) ==
    IF column + 1 < number_of_stores THEN <<row, column + 1>>
    ELSE <<row + 1, column_start_index(row + 1, all_cells)>>

\* Lines 375-376: the cells the iteration (row, column) assigns are added
\* to the record of who assigned which cell.
written_by(w, row, column) ==
    [c \in DOMAIN w |->
        IF c \in {<<row, column>>, <<column, row>>}
        THEN w[c] \cup {<<row, column>>}
        ELSE w[c]]

\* progress_bar.set_description and progress_bar.update: the calls a given
\* progress bar received, in order; None stays None.
set_description_swapped(bar, store_name1, store_name2) ==
    IF bar = None THEN None
    ELSE Some(Append(bar[1], <<"set_description", store_name2, store_name1>>))

set_description(bar, store_name1, store_name2) ==
    IF bar = None THEN None
    ELSE Some(Append(bar[1], <<"set_description", store_name1, store_name2>>))

update(bar, n) ==
    IF bar = None THEN None ELSE Some(Append(bar[1], <<"update", n>>))

number_of_stores == Len(store_data)

InitStores ==
    /\ pc = "idle"
    /\ left_set = None
    /\ right_set = None
    /\ metric = "none"
    /\ branch = "none"
    /\ result = None
    /\ stage = "call"
    /\ store_data \in StoreLists
    /\ overlap_function \in OverlapFunctions
    /\ preprocess_function \in PreprocessFunctions
    /\ progress_bar \in {None, Some(<<>>)}
    /\ calculate_all_cells \in BOOLEAN
    /\ store_names = <<>>
    /\ store_overlap = <<>>
    /\ row_index = 0
    /\ column_index = 0
    /\ returned = None
    /\ evaluated = <<>>
    /\ writers = <<>>
    /\ phase = "first"
    /\ previous = None
    /\ NoUtilCall

\* Lines 353-356 when a store has no rows: the list comprehension raises.
StoreNamesRaise ==
    /\ stage = "call"
    /\ store_names_raise(store_data)
    /\ stage' = "raised"
    /\ returned' = IndexError
    /\ UNCHANGED <<call_vars, util_vars, trace_vars, store_data,
                   overlap_function, preprocess_function,
                   progress_bar, calculate_all_cells, store_names,
                   store_overlap, row_index, column_index>>

\* Lines 353-356: names and array are set up and the loops are entered.
Setup ==
    /\ stage = "call"
    /\ ~store_names_raise(store_data)
    /\ stage' = "loop"
    /\ store_names' = store_names_of(store_data)
    /\ store_overlap' = empty_matrix(number_of_stores)
    /\ row_index' = 0
    /\ column_index' = column_start_index(0, calculate_all_cells)
    /\ evaluated' = <<>>
    /\ writers' = [c \in DOMAIN empty_matrix(number_of_stores) |-> {}]
    /\ UNCHANGED <<call_vars, util_vars, phase, previous, store_data,
                   overlap_function, preprocess_function,
                   progress_bar, calculate_all_cells, returned>>

\* Lines 359-379: one iteration of the inner loop.
Iteration ==
    /\ stage = "loop"
    /\ row_index < number_of_stores
    /\ LET described == set_description(progress_bar,
                            store_names[row_index + 1],
                            store_names[column_index + 1])
           overlap == pair_overlap(store_data, overlap_function,
                          preprocess_function, row_index, column_index)
           next == next_pair(row_index, column_index, number_of_stores,
                       calculate_all_cells)
       IN  IF IsException(overlap)
           THEN /\ stage' = "raised"
                /\ returned' = overlap
                /\ progress_bar' = described
                /\ UNCHANGED <<store_overlap, row_index, column_index,
                               writers>>
           ELSE /\ store_overlap' = write_cells(store_overlap, row_index,
                                        column_index, overlap)
                /\ progress_bar' = update(described, 1)
                /\ row_index' = next[1]
                /\ column_index' = next[2]
                /\ writers' = written_by(writers, row_index, column_index)
                /\ UNCHANGED <<stage, returned>>
    /\ evaluated' = Append(evaluated, <<row_index, column_index>>)
    /\ UNCHANGED <<call_vars, util_vars, phase, previous, store_data,
                   overlap_function, preprocess_function,
                   calculate_all_cells, store_names>>

\* Line 381: the loops are over and the DataFrame is returned.
Return ==
    /\ stage = "loop"
    /\ row_index = number_of_stores
    /\ stage' = "returned"
    /\ returned' = [values |-> store_overlap,
                    columns |-> store_names,
                    index |-> store_names]
    /\ UNCHANGED <<call_vars, util_vars, trace_vars, store_data,
                   overlap_function, preprocess_function,
                   progress_bar, calculate_all_cells, store_names,
                   store_overlap, row_index, column_index>>

NextStores ==
    \/ StoreNamesRaise
    \/ Setup
    \/ Iteration
    \/ Return

SpecStores == InitStores /\ [][NextStores]_vars

\* A caller that calls three times with the same store_data, metric,
\* preprocessing and progress bar: in the mode given, in the other mode, and
\* in the mode given again.  The locals of a finished call are dead; the
\* next call sets them up anew.  A progress bar keeps what it received.
CallBetween ==
    /\ stage = "returned"
    /\ phase = "first"
    /\ phase' = "between"
    /\ previous' = returned
    /\ calculate_all_cells' = ~calculate_all_cells
    /\ stage' = "call"
    /\ returned' = None
    /\ UNCHANGED <<call_vars, util_vars, evaluated, writers, store_data,
                   overlap_function, preprocess_function, progress_bar,
                   store_names, store_overlap, row_index, column_index>>

CallAgain ==
    /\ stage = "returned"
    /\ phase = "between"
    /\ phase' = "again"
    /\ calculate_all_cells' = ~calculate_all_cells
    /\ stage' = "call"
    /\ returned' = None
    /\ UNCHANGED <<call_vars, util_vars, evaluated, writers, previous,
                   store_data, overlap_function, preprocess_function,
                   progress_bar, store_names, store_overlap, row_index,
                   column_index>>

NextRepeat ==
    \/ NextStores
    \/ CallBetween
    \/ CallAgain

SpecRepeat == InitStores /\ [][NextRepeat]_vars

\* ---------------------------------------------------------------------
\* drop_short_strings (overlap.py, lines 268-285).

MaxStrLen == 4
MaxColumn == 2

\* A string of every length from 0 to MaxStrLen.
Strings == { SubSeq("abcdefgh", 1, n) : n \in 0..MaxStrLen }

StringColumns == UNION { [1..n -> Strings] : n \in 0..MaxColumn }

NameError == <<"NameError">>

\* Line 268: the default of drop_less_than.
default_drop_less_than == 3

\* The names a lookup in the body of drop_short_strings finds: its
\* parameters, and the names the module binds (its imports and functions).
names_in_scope ==
    {"string_column", "drop_less_than"} \cup
    {"Tuple", "Callable", "List", "Optional", "AutoTokenizer", "pd", "np",
     "tqdm", "handle_missing_sets", "__handle_zero_length_sets",
     "jaccard_similarity", "jaccard_index", "dice_coefficient",
     "overlap_coefficient", "percentage_overlap", "asymmetrical_overlap",
     "split_strings", "tokenize_strings", "drop_short_strings",
     "huggingface_tokenize_strings", "calculate_overlap_for_stores"}

AtLeast(threshold) == [string \in Strings |-> Len(string) >= threshold]

\* Line 285 if its names were bound: string_column[string_column.str.len()
\* >= threshold].
boolean_mask(column, threshold) ==
    LET keep == AtLeast(threshold)
        Keep(string) == keep[string]
    IN  SelectSeq(column, Keep)

\* Lines 282-285.  Neither min_str_len nor drop_shorter_than is a
\* parameter or a name of the module.
drop_short_strings(column, less_than) ==
    IF "min_str_len" \notin names_in_scope THEN NameError
    ELSE IF "drop_shorter_than" \notin names_in_scope THEN NameError
    ELSE boolean_mask(column,
             IF less_than = None THEN default_drop_less_than
             ELSE less_than[1])

InitStrings ==
    /\ pc = "ready"
    /\ left_set = None
    /\ right_set = None
    /\ metric = "none"
    /\ branch = "none"
    /\ result = None
    /\ string_column \in StringColumns
    /\ drop_less_than \in {None} \cup { <<k>> : k \in 0..MaxStrLen }
    /\ NoFilesCall
    /\ NoStoresCall

DropShortStrings ==
    /\ pc = "ready"
    /\ pc' = "done"
    /\ metric' = "drop_short_strings"
    /\ result' = drop_short_strings(string_column, drop_less_than)
    /\ UNCHANGED <<left_set, right_set, branch, store_vars, trace_vars,
                   util_vars>>

NextStrings == DropShortStrings

SpecStrings == InitStrings /\ [][NextStrings]_vars

\* ---------------------------------------------------------------------
\* batched_writer (files.py, lines 25-69).

MaxRows == 4
MaxBatch == 3

\* A row is a number; a DataFrame is the sequence of its rows.
Rows == 1..2

DataFrames == UNION { [1..n -> Rows] : n \in 0..MaxRows }

ProcessBatchFunctions == {"identity", "predict"}

\* dataframe.iloc[start:stop].copy(): the rows from position start up to,
\* not including, position stop, as far as there are rows.
iloc(df, start, stop) ==
    SubSeq(df, start + 1, IF stop < Len(df) THEN stop ELSE Len(df))

\* Lines 55-56: process_batch(batch_df, progress_bar, **kwargs), a function
\* of the caller that returns a DataFrame: the batch itself, or the batch
\* with a prediction added to every row.
call_process_batch(f, batch_df) ==
    IF f = "identity" THEN batch_df
    ELSE [k \in 1..Len(batch_df) |-> batch_df[k] + 10]

\* Variant of opens_writer that opens a writer for every batch.
opens_writer_always(start) == TRUE

\* Line 59: if i == 0.
opens_writer(start) == start = 0

\* Variant of closes_writer that closes without looking at pq_writer.
closes_writer_always(writer) == TRUE

\* Line 68: if pq_writer.
closes_writer(writer) == writer # None

InitFiles ==
    /\ pc = "loop"
    /\ left_set = None
    /\ right_set = None
    /\ metric = "batched_writer"
    /\ branch = "none"
    /\ result = None
    /\ dataframe \in DataFrames
    /\ batch_size \in 1..MaxBatch
    /\ process_batch \in ProcessBatchFunctions
    /\ i_batch = 0
    /\ pq_writer = None
    /\ parquet_file = <<>>
    /\ progress_n = 0
    /\ NoStringsCall
    /\ NoStoresCall

\* Lines 53-65: one iteration of the loop over range(0, len(dataframe),
\* batch_size).  write_table on None raises AttributeError, which ends the
\* call.
Batch ==
    /\ pc = "loop"
    /\ i_batch < Len(dataframe)
    /\ LET batch_df == iloc(dataframe, i_batch, i_batch + batch_size)
           table == call_process_batch(process_batch, batch_df)
           opened == IF opens_writer(i_batch) THEN << <<"ParquetWriter">> >>
                     ELSE <<>>
           writer == IF opens_writer(i_batch) THEN Some("ParquetWriter")
                     ELSE pq_writer
       IN  /\ pq_writer' = writer
           /\ IF writer = None
              THEN /\ pc' = "done"
                   /\ result' = AttributeError
                   /\ parquet_file' = parquet_file \o opened
                   /\ UNCHANGED <<i_batch, progress_n>>
              ELSE /\ parquet_file' =
                         parquet_file \o opened \o << <<"write_table", table>> >>
                   /\ progress_n' = progress_n + batch_size
                   /\ i_batch' = i_batch + batch_size
                   /\ UNCHANGED <<pc, result>>
    /\ UNCHANGED <<left_set, right_set, metric, branch, store_vars,
                   trace_vars, string_column, drop_less_than, dataframe,
                   batch_size, process_batch>>

\* Lines 68-69: the range is exhausted; the writer is closed if there is
\* one, and the function returns None.
Close ==
    /\ pc = "loop"
    /\ i_batch >= Len(dataframe)
    /\ pc' = "done"
    /\ parquet_file' =
          IF closes_writer(pq_writer) THEN Append(parquet_file, <<"close">>)
          ELSE parquet_file
    /\ UNCHANGED <<left_set, right_set, metric, branch, result, store_vars,
                   trace_vars, string_column, drop_less_than, dataframe,
                   batch_size, process_batch, i_batch, pq_writer,
                   progress_n>>

NextFiles ==
    \/ Batch
    \/ Close

SpecFiles == InitFiles /\ [][NextFiles]_vars

----------------------------------------------------------------------------
\* Properties of the symmetric metrics.

One == <<1, 1>>
Zero == <<0, 1>>
Hundred == <<100, 1>>

\* The set an argument stands for: None stands for the empty set.
ArgSet(x) == IF x = None THEN {} ELSE x[1]

A == ArgSet(left_set)
B == ArgSet(right_set)

\* A value that was returned (no exception) and equals the rational n / d.
IsRatio(v, n, d) == v[2] > 0 /\ d > 0 /\ v[1] * d = n * v[2]

NonEmptyUnequal == A # {} /\ B # {} /\ A # B

\* The metric named m applied to the arguments x and y.
Apply(m, x, y) ==
    CASE m = "jaccard_similarity" -> jaccard_similarity(x, y)
      [] m = "jaccard_index" -> jaccard_index(x, y)
      [] m = "dice_coefficient" -> dice_coefficient(x, y)
      [] m = "overlap_coefficient" -> overlap_coefficient(x, y)
      [] m = "percentage_overlap" -> percentage_overlap(x, y)

\* C1: every symmetric metric returns the same value when its two arguments
\* are swapped, for all sets including empty and absent ones.
C1_Symmetric ==
    pc = "done" => result = Apply(metric, right_set, left_set)

C1_Witness ==
    /\ pc = "done"
    /\ metric = "overlap_coefficient"
    /\ branch = "overlap_function"
    /\ len(A) # len(B)
    /\ result # Zero

C4_OneEmpty ==
    (pc = "done" /\ ((A = {}) # (B = {}))) => result = Zero

C4_Witness ==
    /\ pc = "done"
    /\ left_set = Some({1})
    /\ right_set = None
    /\ branch = "empty_match"
    /\ result = Zero

\* C5: jaccard_similarity and jaccard_index return the same value on all
\* inputs, and on non-empty unequal sets that value is |A n B| / |A u B|
\* (1/2 for {1,2,3} and {2,3,4}).
C5_JaccardEqual ==
    (pc = "done" /\ metric \in {"jaccard_similarity", "jaccard_index"}) =>
        /\ result = jaccard_similarity(left_set, right_set)
        /\ result = jaccard_index(left_set, right_set)
        /\ NonEmptyUnequal => IsRatio(result, len(A \cap B), len(A \cup B))
        /\ (A = {1, 2, 3} /\ B = {2, 3, 4}) => IsRatio(result, 2, 4)

C5_Witness ==
    /\ pc = "done"
    /\ metric = "jaccard_index"
    /\ A = {1, 2, 3}
    /\ B = {2, 3, 4}
    /\ result = <<1, 2>>

\* C6: on non-empty unequal sets dice_coefficient is 2 |A n B| / (|A| + |B|)
\* (4/6 for {1,2,3} and {2,3,4}).
C6_Dice ==
    (pc = "done" /\ metric = "dice_coefficient" /\ NonEmptyUnequal) =>
        /\ IsRatio(result, 2 * len(A \cap B), len(A) + len(B))
        /\ (A = {1, 2, 3} /\ B = {2, 3, 4}) => IsRatio(result, 4, 6)

C6_Witness ==
    /\ pc = "done"
    /\ metric = "dice_coefficient"
    /\ A = {1, 2, 3}
    /\ B = {2, 3, 4}
    /\ result = <<2, 3>>

\* C7: on non-empty unequal sets overlap_coefficient is
\* |A n B| / min(|A|, |B|) (2/3 for {1,2,3} and {2,3,4}).
C7_OverlapCoefficient ==
    (pc = "done" /\ metric = "overlap_coefficient" /\ NonEmptyUnequal) =>
        /\ IsRatio(result, len(A \cap B), Min(len(A), len(B)))
        /\ (A = {1, 2, 3} /\ B = {2, 3, 4}) => IsRatio(result, 2, 3)

C7_Witness ==
    /\ pc = "done"
    /\ metric = "overlap_coefficient"
    /\ len(A) = 1
    /\ len(B) = 3
    /\ A \subseteq B
    /\ result = One

C10_NoZeroDivision ==
    pc = "done" =>
        /\ result # ZeroDivisionError
        /\ branch = "overlap_function" =>
              /\ NonEmptyUnequal
              /\ len(A \cup B) >= 1
              /\ len(A) + len(B) - len(A \cap B) >= 1
              /\ len(A) + len(B) >= 1
              /\ Min(len(A), len(B)) >= 1

C10_Witness ==
    /\ pc = "done"
    /\ metric = "overlap_coefficient"
    /\ branch = "overlap_function"
    /\ len(A) = 1
    /\ len(B) = 1
    /\ result = Zero

----------------------------------------------------------------------------
\* Properties of handle_missing_sets and asymmetrical_overlap.

\* C11: handle_missing_sets is total and pure: for every pair of inputs,
\* each a set or None, it returns a pair of sets in which None is replaced
\* by the empty set and a set is returned with exactly its elements, and
\* neither input is modified.
C11_HandleMissingSets ==
    [][(pc' = "done" /\ metric' = "handle_missing_sets") =>
          /\ result' \in Sets \X Sets
          /\ result' = <<ArgSet(left_set), ArgSet(right_set)>>
          /\ left_set' = left_set
          /\ right_set' = right_set]_vars

C11_Witness ==
    /\ pc = "done"
    /\ metric = "handle_missing_sets"
    /\ left_set = None
    /\ right_set = Some({1, 2})
    /\ result = <<{}, {1, 2}>>

\* C12: for a non-empty set A and a set B asymmetrical_overlap(A, B) is
\* |A n B| / |A|, and it is not symmetric: ({1,2,3}, {2,3}) gives 2/3 and
\* ({2,3}, {1,2,3}) gives 1.
C12_AsymmetricalOverlap ==
    (/\ pc = "done"
     /\ metric = "asymmetrical_overlap"
     /\ left_set # None
     /\ right_set # None
     /\ A # {}) =>
        /\ IsRatio(result, len(A \cap B), len(A))
        /\ (A = {1, 2, 3} /\ B = {2, 3}) =>
              /\ result = <<2, 3>>
              /\ asymmetrical_overlap(right_set, left_set) = One
        /\ (A = {2, 3} /\ B = {1, 2, 3}) => result = One

C12_Witness ==
    /\ pc = "done"
    /\ metric = "asymmetrical_overlap"
    /\ left_set = Some({1, 2, 3})
    /\ right_set = Some({2, 3})
    /\ result = <<2, 3>>
    /\ asymmetrical_overlap(right_set, left_set) # result

\* C13: asymmetrical_overlap does not pass through the zero-length
\* dispatch: with the empty set as first argument (also when the second is
\* empty too) the call ends in a ZeroDivisionError, and with a non-empty
\* first and an empty second argument it returns 0.
C13_AsymmetricalUnguarded ==
    (/\ pc = "done"
     /\ metric = "asymmetrical_overlap"
     /\ left_set # None
     /\ right_set # None) =>
        /\ branch = "none"
        /\ A = {} => result = ZeroDivisionError
        /\ (A # {} /\ B = {}) => result = Zero

C13_Witness ==
    /\ pc = "done"
    /\ metric = "asymmetrical_overlap"
    /\ left_set = Some({})
    /\ right_set = Some({})
    /\ result = ZeroDivisionError

----------------------------------------------------------------------------
\* Properties of calculate_overlap_for_stores.

SymmetricMetrics ==
    { "jaccard_similarity", "jaccard_index", "dice_coefficient",
      "overlap_coefficient", "percentage_overlap" }

\* The metric the call uses: jaccard_index when none is given.
MetricUsed ==
    IF overlap_function = "default" THEN "jaccard_index" ELSE overlap_function

\* Indices of the groups, from 0.
Groups == 0..(Len(store_data) - 1)

\* The set of group k: the values of its product column, preprocessed
\* (the identity when no preprocess_function is given).
GroupSet(k) ==
    LET column == { store_data[k + 1][r][2] : r \in 1..Len(store_data[k + 1]) }
    IN  IF preprocess_function = "default" THEN column
        ELSE { v \in column : v >= 2 }

\* The name of group k: the store id of its first row.
GroupName(k) == store_data[k + 1][1][1]

\* The value of the metric used on the sets of groups i and j.
PairValue(i, j) ==
    IF MetricUsed = "asymmetrical_overlap"
    THEN asymmetrical_overlap(Some(GroupSet(i)), Some(GroupSet(j)))
    ELSE Apply(MetricUsed, Some(GroupSet(i)), Some(GroupSet(j)))

\* The array after the loops of lines 357-379 have run from (row, column)
\* on matrix in the given mode, for a metric that does not raise.
RECURSIVE RunLoops(_, _, _, _)
RunLoops(matrix, row, column, all_cells) ==
    IF row >= Len(store_data) THEN matrix
    ELSE LET overlap == pair_overlap(store_data, overlap_function,
                            preprocess_function, row, column)
             next == next_pair(row, column, Len(store_data), all_cells)
         IN  RunLoops(write_cells(matrix, row, column, overlap),
                      next[1], next[2], all_cells)

\* The array a call with the same arguments computes in the given mode.
MatrixInMode(all_cells) ==
    RunLoops(empty_matrix(Len(store_data)), 0,
             column_start_index(0, all_cells), all_cells)

\* C14: the matrix returned is symmetric, for any number of groups, any
\* overlap_function (symmetric or not) and both values of
\* calculate_all_cells.
C14_MatrixSymmetric ==
    stage = "returned" =>
        \A i \in Groups, j \in Groups :
            returned.values[<<i, j>>] = returned.values[<<j, i>>]

C14_Witness ==
    /\ stage = "returned"
    /\ MetricUsed = "asymmetrical_overlap"
    /\ calculate_all_cells
    /\ Len(store_data) = 3
    /\ \E i \in Groups, j \in Groups : PairValue(i, j) # PairValue(j, i)

C16_TriangularCells ==
    (/\ stage = "returned"
     /\ ~calculate_all_cells
     /\ MetricUsed \in SymmetricMetrics) =>
        /\ DOMAIN returned.values = Groups \X Groups
        /\ \A i \in Groups, j \in Groups :
              /\ returned.values[<<i, j>>] # Uninitialised
              /\ returned.values[<<i, j>>] = PairValue(i, j)
        /\ overlap_function = "default" =>
              \A i \in Groups, j \in Groups :
                  returned.values[<<i, j>>] =
                      jaccard_index(Some(GroupSet(i)), Some(GroupSet(j)))

C16_Witness ==
    /\ stage = "returned"
    /\ ~calculate_all_cells
    /\ overlap_function = "default"
    /\ preprocess_function = "default"
    /\ Len(store_data) = 3
    /\ returned.values[<<2, 0>>] = <<2, 3>>

\* C17: with a symmetric metric the matrix returned in one mode is the
\* matrix the other mode computes from the same arguments: same axes, same
\* value in every cell.
C17_ModesAgree ==
    (stage = "returned" /\ MetricUsed \in SymmetricMetrics) =>
        /\ returned.values = MatrixInMode(~calculate_all_cells)
        /\ returned.columns = store_names_of(store_data)
        /\ returned.index = store_names_of(store_data)

C17_Witness ==
    /\ stage = "returned"
    /\ calculate_all_cells
    /\ MetricUsed = "dice_coefficient"
    /\ Len(store_data) = 3
    /\ returned.values[<<0, 1>>] = <<4, 5>>
    /\ returned.values = MatrixInMode(FALSE)

\* C18 as stated: a call with a symmetric metric never fails because a
\* group has no rows; it always returns a complete matrix.
C18_NeverFails ==
    MetricUsed \in SymmetricMetrics => stage # "raised"

\* C19: the matrix returned is square and both axes are the group names in
\* input order, the name of a group being the store id of its first row;
\* no group gives an empty matrix and no metric evaluation, one group gives
\* the 1 x 1 matrix of its self-similarity.
C19_Axes ==
    stage = "returned" =>
        /\ DOMAIN returned.values = Groups \X Groups
        /\ returned.columns = [k \in 1..Len(store_data) |-> GroupName(k - 1)]
        /\ returned.index = returned.columns
        /\ Len(store_data) = 0 =>
              /\ returned.values = <<>>
              /\ returned.columns = <<>>
              /\ progress_bar \in {None, Some(<<>>)}
        /\ Len(store_data) = 1 =>
              returned.values = [c \in {<<0, 0>>} |-> PairValue(0, 0)]

C19_Witness ==
    /\ stage = "returned"
    /\ Len(store_data) = 2
    /\ returned.columns = <<4, 2>>

\* The calls a progress bar receives in the iteration of the pair (i, j).
PairCalls(i, j) ==
    << <<"set_description", GroupName(i), GroupName(j)>>, <<"update", 1>> >>

PairsComputed ==
    IF calculate_all_cells THEN Len(store_data) * Len(store_data)
    ELSE (Len(store_data) * (Len(store_data) + 1)) \div 2

\* C20: progress reporting is observational: the matrix returned is the
\* one the loops compute from the other arguments alone, with or without a
\* progress_bar; a given progress_bar receives, for each pair computed, a
\* set_description naming the pair followed by update(1), n(n+1)/2 times
\* in triangular mode and n * n times in full mode.
C20_Progress ==
    /\ [](stage = "returned" =>
            /\ returned.values = MatrixInMode(calculate_all_cells)
            /\ progress_bar # None =>
                  Len(progress_bar[1]) = 2 * PairsComputed)
    /\ [][(stage = "loop" /\ stage' = "loop") =>
            IF progress_bar = None THEN progress_bar' = None
            ELSE progress_bar' =
                     Some(progress_bar[1] \o PairCalls(row_index, column_index))]_vars

C20_Witness ==
    /\ stage = "returned"
    /\ progress_bar # None
    /\ calculate_all_cells
    /\ Len(store_data) = 3
    /\ Len(progress_bar[1]) = 18
    /\ progress_bar[1][3] = <<"set_description", 1, 2>>

\* The call has ended: it returned or it raised.
Ended == stage \in {"returned", "raised"}

\* The pairs of the two loops of lines 357-359 in row-major order, for n
\* groups: all of them, or those with row <= column.
AllPairs(n) == [k \in 1..(n * n) |-> <<(k - 1) \div n, (k - 1) % n>>]

UpperPair(pair) == pair[1] <= pair[2]

PairsInOrder(n, all_cells) ==
    IF all_cells THEN AllPairs(n) ELSE SelectSeq(AllPairs(n), UpperPair)

\* The position of a pair in the sequence of evaluations.
EvaluatedAt(pair) ==
    CHOOSE k \in 1..Len(evaluated) : evaluated[k] = pair

\* |S_i & S_j| / |S_i|: the asymmetrical overlap with group i first.
OverlapFrom(i, j) ==
    Frac(Cardinality(GroupSet(i) \cap GroupSet(j)), Cardinality(GroupSet(i)))

\* C21 as stated: every cell of the matrix is assigned by at most one
\* (row_index, column_index) iteration, in triangular mode and in full
\* mode, so that the iterations can run in any order.
C21_WriteOnce ==
    \A c \in DOMAIN writers : Cardinality(writers[c]) <= 1

\* C22 as stated, for the metrics that never raise: a call ends having
\* evaluated the metric exactly n(n+1)/2 times in triangular mode, for the
\* pairs with row_index <= column_index in row-major order, and exactly
\* n * n times in full mode.
C22_Evaluations ==
    (Ended /\ MetricUsed \in SymmetricMetrics) =>
        /\ Len(evaluated) = PairsComputed
        /\ evaluated = PairsInOrder(Len(store_data), calculate_all_cells)

\* C25: in triangular mode with asymmetrical_overlap, M[i][j] and M[j][i]
\* of the matrix returned both hold |S_i & S_j| / |S_i| for every i <= j,
\* and the metric is never called for a pair with row_index > column_index.
C25_TriangularMirror ==
    (~calculate_all_cells /\ MetricUsed = "asymmetrical_overlap") =>
        /\ \A k \in 1..Len(evaluated) : evaluated[k][1] <= evaluated[k][2]
        /\ stage = "returned" =>
              \A r \in Groups, c \in Groups :
                  r <= c =>
                      /\ returned.values[<<r, c>>] = OverlapFrom(r, c)
                      /\ returned.values[<<c, r>>] = OverlapFrom(r, c)

C25_Witness ==
    /\ stage = "returned"
    /\ ~calculate_all_cells
    /\ MetricUsed = "asymmetrical_overlap"
    /\ Len(store_data) = 3
    /\ \A k \in Groups : GroupSet(k) # {}
    /\ OverlapFrom(0, 2) # OverlapFrom(2, 0)
    /\ returned.values[<<2, 0>>] = OverlapFrom(0, 2)

\* C27: in full mode with asymmetrical_overlap every off-diagonal cell of
\* the matrix returned has been assigned by the two iterations (i, j) and
\* (j, i), the second after the first, and M[i][j] and M[j][i] both hold
\* |S_j & S_i| / |S_j| for every i < j; the cell differs from the cell of
\* the triangular-mode matrix exactly when the two orders of the arguments
\* give different values.
C27_FullModeLastWins ==
    (/\ stage = "returned"
     /\ calculate_all_cells
     /\ MetricUsed = "asymmetrical_overlap") =>
        \A r \in Groups, c \in Groups :
            r < c =>
                /\ writers[<<r, c>>] = {<<r, c>>, <<c, r>>}
                /\ writers[<<c, r>>] = {<<r, c>>, <<c, r>>}
                /\ EvaluatedAt(<<r, c>>) < EvaluatedAt(<<c, r>>)
                /\ returned.values[<<r, c>>] = OverlapFrom(c, r)
                /\ returned.values[<<c, r>>] = OverlapFrom(c, r)
                /\ (OverlapFrom(r, c) # OverlapFrom(c, r)) <=>
                      (returned.values[<<r, c>>] # MatrixInMode(FALSE)[<<r, c>>])

C27_Witness ==
    /\ stage = "returned"
    /\ calculate_all_cells
    /\ MetricUsed = "asymmetrical_overlap"
    /\ Len(store_data) = 3
    /\ \A k \in Groups : GroupSet(k) # {}
    /\ OverlapFrom(0, 1) # OverlapFrom(1, 0)
    /\ returned.values[<<0, 1>>] = OverlapFrom(1, 0)
    /\ returned.values # MatrixInMode(FALSE)

\* C28 as stated: a call with asymmetrical_overlap and a group whose
\* preprocessed set is empty ends, in either mode, by raising
\* ZeroDivisionError.
C28_DivisionByZero ==
    (/\ Ended
     /\ MetricUsed = "asymmetrical_overlap"
     /\ \E k \in Groups : GroupSet(k) = {}) =>
        /\ stage = "raised"
        /\ returned = ZeroDivisionError

\* C23: calculate_overlap_for_stores keeps no state between calls: a call
\* that follows a call with the same arguments, whatever was called in
\* between, returns an equal DataFrame (same axes, same cells) and does not
\* raise; no step of a call changes the caller's store_data.
C23_NoStateBetweenCalls ==
    /\ []((phase = "again" /\ stage = "returned") => returned = previous)
    /\ [](phase = "again" => stage # "raised")
    /\ [][store_data' = store_data]_vars

C23_Witness ==
    /\ phase = "again"
    /\ stage = "returned"
    /\ ~calculate_all_cells
    /\ MetricUsed = "asymmetrical_overlap"
    /\ Len(store_data) = 3
    /\ progress_bar # None
    /\ Len(progress_bar[1]) = 2 * (6 + 9 + 6)
    /\ OverlapFrom(0, 2) # OverlapFrom(2, 0)
    /\ returned = previous

\* The least length that drop_short_strings is to keep.
Threshold == IF drop_less_than = None THEN 3 ELSE drop_less_than[1]

LongEnough(string) == Len(string) >= Threshold

\* C24 as stated: drop_short_strings returns the entries of string_column
\* whose length is at least drop_less_than (3 when omitted), in order.
C24_DropShort ==
    (pc = "done" /\ metric = "drop_short_strings") =>
        result = SelectSeq(string_column, LongEnough)

\* The calls pyarrow is to receive for the file: nothing for a DataFrame
\* without rows, else the writer's construction, one write_table for each
\* run of batch_size consecutive rows (the last run may be shorter), close.
NumberOfBatches == (Len(dataframe) + batch_size - 1) \div batch_size

Processed(rows) ==
    [k \in 1..Len(rows) |->
        IF process_batch = "identity" THEN rows[k] ELSE rows[k] + 10]

BatchRows(k) ==
    [r \in 1..Min(batch_size, Len(dataframe) - (k - 1) * batch_size) |->
        dataframe[(k - 1) * batch_size + r]]

ExpectedCalls ==
    IF Len(dataframe) = 0 THEN <<>>
    ELSE << <<"ParquetWriter">> >>
         \o [k \in 1..NumberOfBatches |->
                <<"write_table", Processed(BatchRows(k))>>]
         \o << <<"close">> >>

IsPrefix(s, t) == Len(s) <= Len(t) /\ SubSeq(t, 1, Len(s)) = s

\* The rows of the tables written so far, in the order written.
RECURSIVE WrittenRows(_)
WrittenRows(calls) ==
    IF calls = <<>> THEN <<>>
    ELSE LET last == calls[Len(calls)]
             before == WrittenRows(SubSeq(calls, 1, Len(calls) - 1))
         IN  IF last[1] = "write_table" THEN before \o last[2] ELSE before

\* C26: called with a batch_size of at least 1 and a process_batch that
\* returns, batched_writer constructs the Parquet writer once, with the first
\* batch, writes the processed batches of at most batch_size consecutive
\* rows in row order, every row in exactly one of them, and closes the
\* writer once after the last; for a DataFrame without rows it constructs
\* no writer and writes nothing.
C26_Batches ==
    (metric = "batched_writer") =>
        /\ IsPrefix(parquet_file, ExpectedCalls)
        /\ \A k \in 1..Len(parquet_file) :
              parquet_file[k][1] = "write_table" =>
                  /\ Len(parquet_file[k][2]) >= 1
                  /\ Len(parquet_file[k][2]) <= batch_size
        /\ pc = "done" =>
              /\ parquet_file = ExpectedCalls
              /\ WrittenRows(parquet_file) = Processed(dataframe)
              /\ result = None
        /\ Len(dataframe) = 0 => (parquet_file = <<>> /\ pq_writer = None)

C26_Witness ==
    /\ metric = "batched_writer"
    /\ pc = "done"
    /\ dataframe = <<1, 2, 2, 1>>
    /\ batch_size = 3
    /\ process_batch = "predict"
    /\ parquet_file = << <<"ParquetWriter">>, <<"write_table", <<11, 12, 12>>>>,
                         <<"write_table", <<11>>>>, <<"close">> >>

Fifty == <<50, 1>>

\* a < b for two floats.
Less(a, b) == Leq(a, b) /\ ~Leq(b, a)

C30_Ordering ==
    pc = "done" =>
        LET jaccard == jaccard_index(left_set, right_set)
            dice == dice_coefficient(left_set, right_set)
            coefficient == overlap_coefficient(left_set, right_set)
        IN  /\ Leq(jaccard, dice)
            /\ Leq(dice, coefficient)
            /\ metric = "jaccard_index" => result = jaccard
            /\ metric = "dice_coefficient" => result = dice
            /\ metric = "overlap_coefficient" => result = coefficient
            /\ (metric \in {"jaccard_index", "dice_coefficient"}
                  /\ result = One) => A = B
            /\ (/\ metric = "overlap_coefficient"
                /\ \/ (A # {} /\ A \subseteq B)
                   \/ (B # {} /\ B \subseteq A)) => result = One

C30_Witness ==
    /\ pc = "done"
    /\ metric = "overlap_coefficient"
    /\ A = {2, 3}
    /\ B = {1, 2, 3, 4}
    /\ result = One
    /\ jaccard_index(left_set, right_set) = <<1, 2>>
    /\ dice_coefficient(left_set, right_set) = <<2, 3>>

====
